---- MODULE Spec2Model ----
(***************************************************************************)
(* Model of the retrieval-augmented assignment core of smarttickets:       *)
(* app/assignment_agent.py (safe_parse_json, load_all_teams, normalize,    *)
(* AssignmentAgent), app/retriever.py (top_k_similar),                     *)
(* app/solution_agent.py (SolutionAgent), app/evaluation.py                *)
(* (llm_grade_solution) and the /assign and /solution handlers of          *)
(* app/main.py with the writes of app/repository.py.                       *)
(*                                                                         *)
(* Text.  A Python str is a sequence of text atoms.  An atom is a single   *)
(* character wherever case or whitespace matters ("T", " ") and an opaque  *)
(* lower-case run of characters elsewhere ("etwork").                      *)
(*                                                                         *)
(* Python values.  A scalar is a record [t, s, n]: t is the type tag       *)
(* ("str", "none", "num", or "absent" for a key that is not in a dict),    *)
(* s the text of a str, n the value of a number.                           *)
(***************************************************************************)
EXTENDS Integers, Sequences, FiniteSets, TLC

\* ------------------------------------------------------------------------
\* Bounds of the model
\* ------------------------------------------------------------------------
MaxTeams == 2
MaxTeamChanges == 1

\* ------------------------------------------------------------------------
\* Python scalars
\* ------------------------------------------------------------------------
Str(s) == [t |-> "str", s |-> s, n |-> 0]
None == [t |-> "none", s |-> <<>>, n |-> 0]
Num(n) == [t |-> "num", s |-> <<>>, n |-> n]
Absent == [t |-> "absent", s |-> <<>>, n |-> 0]

\* Python truthiness of a scalar: None, "" and 0 are falsy.
Truthy(v) ==
    \/ v.t = "str" /\ v.s # <<>>
    \/ v.t = "num" /\ v.n # 0

\* ------------------------------------------------------------------------
\* str.strip() and str.lower()
\* ------------------------------------------------------------------------
UpperChars == <<"A","B","C","D","E","F","G","H","I","J","K","L","M",
                "N","O","P","Q","R","S","T","U","V","W","X","Y","Z">>
LowerChars == <<"a","b","c","d","e","f","g","h","i","j","k","l","m",
                "n","o","p","q","r","s","t","u","v","w","x","y","z">>

IsSpace(c) == c \in {" ", "\t", "\n"}

LowerChar(c) ==
    IF \E i \in 1..Len(UpperChars) : UpperChars[i] = c
    THEN LowerChars[CHOOSE i \in 1..Len(UpperChars) : UpperChars[i] = c]
    ELSE c

lower(s) == [i \in 1..Len(s) |-> LowerChar(s[i])]

RECURSIVE lstrip(_)
lstrip(s) ==
    IF s = <<>> THEN s
    ELSE IF IsSpace(Head(s)) THEN lstrip(Tail(s)) ELSE s

RECURSIVE rstrip(_)
rstrip(s) ==
    IF s = <<>> THEN s
    ELSE IF IsSpace(s[Len(s)]) THEN rstrip(SubSeq(s, 1, Len(s) - 1)) ELSE s

strip(s) == rstrip(lstrip(s))

\* normalize(s) = (s or "").strip().lower().  A falsy value becomes "";
\* a truthy value that is not a str has no strip(): AttributeError.
normalize_raises(v) == Truthy(v) /\ v.t # "str"

normalize(v) == IF Truthy(v) THEN lower(strip(v.s)) ELSE <<>>

\* ------------------------------------------------------------------------
\* Model output text: a sequence of lexical tokens [k, s, d]
\*   fence    ``` (s = <<>>) or ```json (s = <<"json">>)
\*   ws       a run of whitespace
\*   lbrace   {            rbrace   }
\*   members  the well-formed member list of a JSON object, d its content
\*   lit      a complete JSON value that is not an object; s names its type
\*   text     a run of other characters, s its text
\* ------------------------------------------------------------------------
Dict(id, name, reasoning) ==
    [assigned_team_id |-> id, assigned_team_name |-> name, reasoning |-> reasoning]
EmptyDict == Dict(Absent, Absent, Absent)

Tok(k, s, d) == [k |-> k, s |-> s, d |-> d]
Fence == Tok("fence", <<>>, EmptyDict)
FenceJson == Tok("fence", <<"json">>, EmptyDict)
Ws == Tok("ws", <<" ">>, EmptyDict)
LBrace == Tok("lbrace", <<"{">>, EmptyDict)
RBrace == Tok("rbrace", <<"}">>, EmptyDict)
Members(d) == Tok("members", <<":">>, d)
Lit(type) == Tok("lit", <<type>>, EmptyDict)
Text(s) == Tok("text", s, EmptyDict)

\* The characters of a token sequence.
RECURSIVE Render(_)
Render(toks) ==
    IF toks = <<>> THEN <<>>
    ELSE LET h == Head(toks)
         IN (IF h.k = "fence" THEN <<"fence">> \o h.s ELSE h.s) \o Render(Tail(toks))

RECURSIVE LStripWs(_)
LStripWs(toks) ==
    IF toks = <<>> THEN toks
    ELSE IF Head(toks).k = "ws" THEN LStripWs(Tail(toks)) ELSE toks

RECURSIVE RStripWs(_)
RStripWs(toks) ==
    IF toks = <<>> THEN toks
    ELSE IF toks[Len(toks)].k = "ws"
         THEN RStripWs(SubSeq(toks, 1, Len(toks) - 1)) ELSE toks

StripWs(toks) == RStripWs(LStripWs(toks))

\* re.sub(r"^```(?:json)?\s*|\s*```$", "", text_in.strip(), flags=re.IGNORECASE)
StripFence(toks) ==
    LET a == StripWs(toks)
        b == IF a # <<>> /\ Head(a).k = "fence" THEN LStripWs(Tail(a)) ELSE a
        c == IF b # <<>> /\ b[Len(b)].k = "fence" /\ b[Len(b)].s = <<>>
             THEN RStripWs(SubSeq(b, 1, Len(b) - 1)) ELSE b
    IN c

\* ------------------------------------------------------------------------
\* Parsed Python values: a dict, or a JSON value of another type
\* ------------------------------------------------------------------------
PyDict(d) == [t |-> "dict", d |-> d]
PyOther(type) == [t |-> type, d |-> EmptyDict]

\* json.loads on a token sequence: [ok, v]; ok = FALSE is a decode error.
JsonLoads(toks) ==
    LET body == SelectSeq(toks, LAMBDA x : x.k # "ws")
    IN IF Len(body) = 1 /\ body[1].k = "lit"
       THEN [ok |-> TRUE, v |-> PyOther(body[1].s[1])]
       ELSE IF Len(body) = 2 /\ body[1].k = "lbrace" /\ body[2].k = "rbrace"
       THEN [ok |-> TRUE, v |-> PyDict(EmptyDict)]
       ELSE IF Len(body) = 3 /\ body[1].k = "lbrace" /\ body[2].k = "members"
               /\ body[3].k = "rbrace"
       THEN [ok |-> TRUE, v |-> PyDict(body[2].d)]
       ELSE [ok |-> FALSE, v |-> PyOther("none")]

\* re.search(r"\{.*\}", text_in, flags=re.DOTALL): the span from the first
\* "{" to the last "}" after it.
ReSearchBraces(toks) ==
    LET opens == {i \in 1..Len(toks) : toks[i].k = "lbrace"}
        closes == {i \in 1..Len(toks) : toks[i].k = "rbrace"}
        first == CHOOSE i \in opens : \A j \in opens : i <= j
        last == CHOOSE i \in closes : \A j \in closes : j <= i
    IN IF opens # {} /\ closes # {} /\ first < last
       THEN [found |-> TRUE, toks |-> SubSeq(toks, first, last)]
       ELSE [found |-> FALSE, toks |-> <<>>]

NonStringNote == <<"Non-string model output.">>
NonJsonNote == <<"Parsed from non-JSON output.">>

\* The record safe_parse_json falls back to when nothing decodes.
Degraded(text_in) ==
    PyDict(Dict(Str(<<>>), Str(strip(Render(text_in))), Str(NonJsonNote)))

\* A raw model output is [isstr, toks]: message.content is a str or None.
safe_parse_json(raw) ==
    IF ~raw.isstr
    THEN PyDict(Dict(Str(<<>>), Str(<<>>), Str(NonStringNote)))
    ELSE LET text_in == StripFence(raw.toks)
             direct == JsonLoads(text_in)
             m == ReSearchBraces(text_in)
         IN IF direct.ok THEN direct.v
            ELSE IF m.found /\ JsonLoads(m.toks).ok THEN JsonLoads(m.toks).v
            ELSE Degraded(text_in)

\* ------------------------------------------------------------------------
\* Storage: teams, tickets, ticket_embeddings
\* ------------------------------------------------------------------------
VARIABLES
    teams,            \* the teams table: a set of [team_id, team_name]
    tickets,          \* the tickets table: ticket_id -> row
    chunks,           \* the ticket_embeddings table, in storage order
    team_changes,     \* number of concurrent changes of the teams table so far
    pc,               \* position of the assign_team request
    req,              \* arguments of assign_team
    candidates,       \* local of assign_team: the list load_all_teams returned
    user_msg,         \* local of assign_team: the first prompt
    llm_calls,        \* the prompts sent to the chat-completion endpoint, in order
    llm_outputs,      \* the raw outputs it returned, in order
    embed_calls,      \* number of embed_text calls
    retrieval_calls,  \* number of top_k_similar calls
    retrieval,        \* the last top_k_similar call: its arguments and its rows
    parsed,           \* safe_parse_json of the first output
    retry_parsed,     \* safe_parse_json of the retry output
    result,           \* how assign_team ended: [kind, d]
    response          \* the HTTP response of the request handler

store == <<teams, tickets, chunks, team_changes>>
locals == <<req, candidates, user_msg, parsed, retry_parsed>>
traffic == <<llm_calls, llm_outputs, embed_calls, retrieval_calls, retrieval>>
vars == <<store, pc, locals, traffic, result, response>>

Team(id, name) == [team_id |-> id, team_name |-> name]

\* ORDER BY team_name: NULLs last; names are ranked by their first letter,
\* the order among names with the same first letter depends on the
\* collation and is left open.
NameRank(name) ==
    IF name.t = "none" THEN Len(LowerChars) + 1
    ELSE IF name.s = <<>> THEN 0
    ELSE LET c == LowerChar(name.s[1])
         IN IF \E i \in 1..Len(LowerChars) : LowerChars[i] = c
            THEN CHOOSE i \in 1..Len(LowerChars) : LowerChars[i] = c
            ELSE 0

\* The lists load_all_teams may return for a teams table.
load_all_teams(table) ==
    {rows \in [1..Cardinality(table) -> table] :
        /\ \A i, j \in DOMAIN rows : i # j => rows[i] # rows[j]
        /\ \A i, j \in DOMAIN rows :
              i < j => NameRank(rows[i].team_name) <= NameRank(rows[j].team_name)}

\* ------------------------------------------------------------------------
\* Retrieval
\* ------------------------------------------------------------------------
\* The embedding model is external; vectors are integers on a line and the
\* embedding of a text is fixed by the text.
embed_text(text_value) == Len(text_value)

Distance(a, b) == IF a < b THEN b - a ELSE a - b

Min(a, b) == IF a < b THEN a ELSE b

\* tm.team_name of the LEFT JOIN: NULL when no team has the ticket's team id.
JoinedTeamName(table, team_id) ==
    IF \E tm \in table : tm.team_id = team_id
    THEN (CHOOSE tm \in table : tm.team_id = team_id).team_name
    ELSE None

Row(table, tks, te, qvec) ==
    [ticket_id |-> te.ticket_id,
     title |-> tks[te.ticket_id].subject,
     answer |-> tks[te.ticket_id].answer,
     assigned_team_id |-> tks[te.ticket_id].assigned_team_id,
     assigned_team_name |-> JoinedTeamName(table, tks[te.ticket_id].assigned_team_id),
     chunk_id |-> te.id,
     score |-> Distance(te.embedding, qvec)]

\* top_k_similar without the WHERE clause: no ticket is excluded.
top_k_similar_unfiltered(table, tks, tes, qvec, top_k, exclude_ticket_id) ==
    LET eligible == 1..Len(tes)
        n == Min(top_k, Cardinality(eligible))
        score(i) == Distance(tes[i].embedding, qvec)
        picks == {f \in [1..n -> eligible] :
                    /\ \A i, j \in 1..n : i # j => f[i] # f[j]
                    /\ \A i, j \in 1..n : i < j => score(f[i]) <= score(f[j])
                    /\ \A i \in 1..n : \A k \in eligible :
                          (\A j \in 1..n : f[j] # k) => score(f[i]) <= score(k)}
    IN {[i \in 1..n |-> Row(table, tks, tes[f[i]], qvec)] : f \in picks}

\* top_k_similar keeping one chunk per ticket, its nearest.
top_k_similar_per_ticket(table, tks, tes, qvec, top_k, exclude_ticket_id) ==
    LET score(i) == Distance(tes[i].embedding, qvec)
        allowed == {i \in 1..Len(tes) :
                       exclude_ticket_id.t = "none"
                       \/ tes[i].ticket_id # exclude_ticket_id.n}
        eligible == {i \in allowed :
                        \A j \in allowed :
                            (tes[j].ticket_id = tes[i].ticket_id /\ j # i)
                                => (score(i) < score(j) \/ (score(i) = score(j) /\ i < j))}
        n == Min(top_k, Cardinality(eligible))
        picks == {f \in [1..n -> eligible] :
                    /\ \A i, j \in 1..n : i # j => f[i] # f[j]
                    /\ \A i, j \in 1..n : i < j => score(f[i]) <= score(f[j])
                    /\ \A i \in 1..n : \A k \in eligible :
                          (\A j \in 1..n : f[j] # k) => score(f[i]) <= score(k)}
    IN {[i \in 1..n |-> Row(table, tks, tes[f[i]], qvec)] : f \in picks}

\* The row lists top_k_similar may return: one row per chunk, the excluded
\* ticket's chunks left out, ascending by score, at most top_k rows; the
\* order among equal scores is left open.
top_k_similar(table, tks, tes, qvec, top_k, exclude_ticket_id) ==
    LET eligible == {i \in 1..Len(tes) :
                        exclude_ticket_id.t = "none"
                        \/ tes[i].ticket_id # exclude_ticket_id.n}
        n == Min(top_k, Cardinality(eligible))
        score(i) == Distance(tes[i].embedding, qvec)
        picks == {f \in [1..n -> eligible] :
                    /\ \A i, j \in 1..n : i # j => f[i] # f[j]
                    /\ \A i, j \in 1..n : i < j => score(f[i]) <= score(f[j])
                    /\ \A i \in 1..n : \A k \in eligible :
                          (\A j \in 1..n : f[j] # k) => score(f[i]) <= score(k)}
    IN {[i \in 1..n |-> Row(table, tks, tes[f[i]], qvec)] : f \in picks}

\* A call of top_k_similar: its arguments and the rows it returned.
Retrieval(qvec, top_k, exclude_ticket_id, rows) ==
    [qvec |-> qvec, top_k |-> top_k, exclude_ticket_id |-> exclude_ticket_id,
     rows |-> rows]

\* ------------------------------------------------------------------------
\* AssignmentAgent: prompts
\* ------------------------------------------------------------------------
\* query_text = f"Subject: {subject}\nBody: {body}"
QueryText(subject, body) == <<"Subject: ">> \o subject \o <<"\nBody: ">> \o body

BackupLimit == 5

\* The team list of the first prompt: the candidates that resolved a
\* neighbour, then at most BackupLimit others; all candidates when no
\* candidate resolved a neighbour.
reduced_candidates(cands, sims) ==
    LET neighbor_team_ids ==
            {normalize(sims[i].assigned_team_id) :
                i \in {j \in DOMAIN sims : Truthy(sims[j].assigned_team_id)}}
        neighbor_candidates ==
            SelectSeq(cands, LAMBDA c : normalize(c.team_id) \in neighbor_team_ids)
        other_candidates ==
            SelectSeq(cands, LAMBDA c : normalize(c.team_id) \notin neighbor_team_ids)
    IN IF neighbor_candidates = <<>> THEN cands
       ELSE neighbor_candidates
            \o SubSeq(other_candidates, 1, Min(BackupLimit, Len(other_candidates)))

\* What a prompt carries: the ticket text, the neighbours, the team list.
FirstPrompt(query_text, cands, sims) ==
    [kind |-> "first",
     query_text |-> query_text,
     examples |-> [i \in DOMAIN sims |->
                     [title |-> sims[i].title,
                      team |-> IF Truthy(sims[i].assigned_team_name)
                               THEN sims[i].assigned_team_name
                               ELSE Str(<<"Unknown">>)]],
     options |-> reduced_candidates(cands, sims)]

RetryPrompt(query_text, cands) ==
    [kind |-> "retry", query_text |-> query_text, examples |-> <<>>, options |-> cands]

\* ------------------------------------------------------------------------
\* AssignmentAgent: validation
\* ------------------------------------------------------------------------
\* dict.get(key, default)
get(d, key, default) == IF d[key].t = "absent" THEN default ELSE d[key]

\* next((t for t in candidates if normalize(t[key]) == want), None) as an
\* index of candidates, 0 for None.
FirstMatch(cands, key, want) ==
    LET hits == {i \in DOMAIN cands : normalize(cands[i][key]) = want}
    IN IF hits = {} THEN 0 ELSE CHOOSE i \in hits : \A j \in hits : i <= j

NoTeam == Team(Str(<<>>), None)

\* validate with the name lookup taking priority over the id lookup.
validate_name_first(record, cands) ==
    IF record.t # "dict" THEN [how |-> "raised", team |-> NoTeam]
    ELSE LET id_value == get(record.d, "assigned_team_id", Str(<<>>))
             name_value == get(record.d, "assigned_team_name", Str(<<>>))
             by_id == FirstMatch(cands, "team_id", normalize(id_value))
             by_name == FirstMatch(cands, "team_name", normalize(name_value))
         IN IF normalize_raises(id_value) \/ normalize_raises(name_value)
            THEN [how |-> "raised", team |-> NoTeam]
            ELSE IF by_name # 0 THEN [how |-> "by_name", team |-> cands[by_name]]
            ELSE IF by_id # 0 THEN [how |-> "by_id", team |-> cands[by_id]]
            ELSE [how |-> "none", team |-> NoTeam]

\* The lookups of _validate_or_retry on one parsed output: how a candidate
\* was found ("by_id", "by_name", "none"), or "raised" when .get or
\* normalize raises AttributeError.
validate(record, cands) ==
    IF record.t # "dict" THEN [how |-> "raised", team |-> NoTeam]
    ELSE LET id_value == get(record.d, "assigned_team_id", Str(<<>>))
             name_value == get(record.d, "assigned_team_name", Str(<<>>))
             by_id == FirstMatch(cands, "team_id", normalize(id_value))
             by_name == FirstMatch(cands, "team_name", normalize(name_value))
         IN IF normalize_raises(id_value) \/ normalize_raises(name_value)
            THEN [how |-> "raised", team |-> NoTeam]
            ELSE IF by_id # 0 THEN [how |-> "by_id", team |-> cands[by_id]]
            ELSE IF by_name # 0 THEN [how |-> "by_name", team |-> cands[by_name]]
            ELSE [how |-> "none", team |-> NoTeam]

Pending == [kind |-> "pending", d |-> EmptyDict]
Raised == [kind |-> "raised", d |-> EmptyDict]
Returned(id, name, reasoning) == [kind |-> "returned", d |-> Dict(id, name, reasoning)]

\* Accept echoing the id and name the model emitted.
AcceptEmitted(team, record, fallback) ==
    Returned(get(record.d, "assigned_team_id", team.team_id),
             get(record.d, "assigned_team_name", team.team_name),
             get(record.d, "reasoning", Str(fallback)))

\* The dict returned for a matched candidate.
Accept(team, record, fallback) ==
    Returned(team.team_id, team.team_name, get(record.d, "reasoning", Str(fallback)))

NoTeamsFound ==
    Returned(Str(<<>>), Str(<<"Unassigned">>), Str(<<"No teams found in database.">>))

FailedTwice ==
    Returned(Str(<<>>), Str(<<"Unassigned">>),
             Str(<<"Model failed twice to return a valid team from database.">>))

\* ------------------------------------------------------------------------
\* Inputs: the teams, tickets and chunks of the store, the model's outputs
\* ------------------------------------------------------------------------
T1 == <<"T", "1">>
T2 == <<"T", "2">>
T3 == <<"T", "3">>
T9 == <<"T", "9">>
Network == <<"N", "etwork">>
Billing == <<"B", "illing">>

\* team_id is the primary key; team_name is nullable.  Two ids or two
\* names of the pool differ only by case.
TeamPool ==
    {Team(Str(T1), Str(Network)),
     Team(Str(T2), Str(Billing)),
     Team(Str(T3), None),
     Team(Str(<<"t", "1">>), Str(<<"b", "illing">>))}

TicketIds == {1, 2}

\* Ticket 1 is unresolved; ticket 2 was resolved by team_id (NULL or the
\* id of a team: assigned_team_id is a foreign key).
TicketTable(team_id) ==
    [i \in TicketIds |->
        IF i = 1
        THEN [subject |-> <<"vpn">>, body |-> <<"vpn", " ", "down">>,
              answer |-> None, assigned_team_id |-> None,
              suggested_answer |-> None, suggested_assigned_team_id |-> None]
        ELSE [subject |-> <<"wifi">>, body |-> <<"no", " ", "wifi">>,
              answer |-> Str(<<"restart the router">>), assigned_team_id |-> team_id,
              suggested_answer |-> None, suggested_assigned_team_id |-> None]]

Chunk(id, ticket_id, embedding) ==
    [id |-> id, ticket_id |-> ticket_id, embedding |-> embedding]

ChunkTables ==
    {<<>>,
     <<Chunk(1, 1, 6), Chunk(2, 2, 5), Chunk(3, 2, 7)>>}

Object(id, name, reasoning) == <<LBrace, Members(Dict(id, name, reasoning)), RBrace>>

Content(toks) == [isstr |-> TRUE, toks |-> toks]
NoContent == [isstr |-> FALSE, toks |-> <<>>]

\* What the chat-completion endpoint may return as message.content.
ModelOutputs ==
    {Content(Object(Str(<<"t", "1">>), Str(<<"n", "etwork">>), Str(<<"matches">>))),
     Content(Object(Str(T9), Str(<<"N", "owhere">>), Str(<<"guess">>))),
     Content(Object(Str(T2), Str(Billing), Str(<<"billing issue">>))),
     Content(Object(Str(T1), Str(Billing), Absent)),
     Content(Object(Str(T9), Str(<<" ", "b", "illing", " ">>), Absent)),
     Content(Object(Num(7), Str(Network), Str(<<"numeric id">>))),
     Content(Object(Str(T1), Num(7), Str(<<"numeric name">>))),
     Content(Object(None, None, None)),
     Content(<<LBrace, RBrace>>),
     Content(<<FenceJson, Ws, LBrace,
               Members(Dict(Str(T2), Str(Billing), Str(<<"fenced">>))),
               RBrace, Ws, Fence>>),
     Content(<<Text(<<"Sure:">>), Ws, LBrace,
               Members(Dict(Str(T1), Str(Network), Str(<<"embedded">>))), RBrace>>),
     Content(<<Text(<<"n", "etwork">>), Ws>>),
     Content(<<Text(<<"no idea">>)>>),
     Content(<<>>),
     Content(<<LBrace, Members(Dict(Str(T1), Str(Network), Absent))>>),
     Content(<<LBrace, Text(<<"oops">>), RBrace>>),
     Content(<<Lit("list")>>),
     Content(<<Lit("num")>>),
     NoContent}

MaxTopK == 2

\* ------------------------------------------------------------------------
\* Initial state: a store, and no request yet
\* ------------------------------------------------------------------------
NoRequest == [ticket_id |-> 0, subject |-> <<>>, body |-> <<>>, top_k |-> 0]
NoRetrieval == [qvec |-> 0, top_k |-> 0, exclude_ticket_id |-> None, rows |-> <<>>]
NoResponse == [route |-> "none", status |-> 0, seq |-> 0, body |-> None]
NoPrompt == [kind |-> "none", query_text |-> <<>>, examples |-> <<>>, options |-> <<>>]

Init ==
    /\ teams \in {S \in SUBSET TeamPool : Cardinality(S) <= MaxTeams}
    /\ tickets \in {TicketTable(id) : id \in {None} \cup {tm.team_id : tm \in teams}}
    /\ chunks \in ChunkTables
    /\ team_changes = 0
    /\ pc = "idle"
    /\ req = NoRequest
    /\ candidates = <<>>
    /\ user_msg = NoPrompt
    /\ llm_calls = <<>>
    /\ llm_outputs = <<>>
    /\ embed_calls = 0
    /\ retrieval_calls = 0
    /\ retrieval = NoRetrieval
    /\ parsed = PyOther("none")
    /\ retry_parsed = PyOther("none")
    /\ result = Pending
    /\ response = NoResponse

\* ------------------------------------------------------------------------
\* assign_team, step by step
\* ------------------------------------------------------------------------
\* LoadTeams without the return on an empty candidate list.
LoadTeamsUnchecked ==
    /\ pc = "idle"
    /\ \E ticket_id \in TicketIds, top_k \in {1, MaxTopK}, rows \in load_all_teams(teams) :
          /\ req' = [ticket_id |-> ticket_id,
                     subject |-> tickets[ticket_id].subject,
                     body |-> tickets[ticket_id].body,
                     top_k |-> top_k]
          /\ candidates' = rows
    /\ pc' = "build_context"
    /\ UNCHANGED <<store, user_msg, parsed, retry_parsed, traffic, result, response>>

\* assign_team is called and loads the candidates; with no team it returns.
LoadTeams ==
    /\ pc = "idle"
    /\ \E ticket_id \in TicketIds, top_k \in {1, MaxTopK}, rows \in load_all_teams(teams) :
          /\ req' = [ticket_id |-> ticket_id,
                     subject |-> tickets[ticket_id].subject,
                     body |-> tickets[ticket_id].body,
                     top_k |-> top_k]
          /\ candidates' = rows
          /\ IF rows = <<>>
             THEN result' = NoTeamsFound /\ pc' = "done"
             ELSE result' = result /\ pc' = "build_context"
    /\ UNCHANGED <<store, user_msg, parsed, retry_parsed, traffic, response>>

\* Embeds the query, retrieves the neighbours, composes the first prompt.
BuildContext ==
    /\ pc = "build_context"
    /\ LET query_text == QueryText(req.subject, req.body)
           qvec == embed_text(query_text)
       IN \E sims \in top_k_similar(teams, tickets, chunks, qvec, req.top_k,
                                    Num(req.ticket_id)) :
             /\ user_msg' = FirstPrompt(query_text, candidates, sims)
             /\ retrieval' = Retrieval(qvec, req.top_k, Num(req.ticket_id), sims)
    /\ embed_calls' = embed_calls + 1
    /\ retrieval_calls' = retrieval_calls + 1
    /\ pc' = "first_attempt"
    /\ UNCHANGED <<store, req, candidates, parsed, retry_parsed, llm_calls,
                   llm_outputs, result, response>>

\* The first chat-completion call and the parse of its output.
FirstAttempt ==
    /\ pc = "first_attempt"
    /\ \E raw \in ModelOutputs :
          /\ llm_calls' = Append(llm_calls, user_msg)
          /\ llm_outputs' = Append(llm_outputs, raw)
          /\ parsed' = safe_parse_json(raw)
    /\ pc' = "validate_1"
    /\ UNCHANGED <<store, req, candidates, user_msg, retry_parsed, embed_calls,
                   retrieval_calls, retrieval, result, response>>

\* _validate_or_retry up to the retry: accept by id, else by name.
Validate1 ==
    /\ pc = "validate_1"
    /\ LET v == validate(parsed, candidates)
       IN CASE v.how = "raised" -> result' = Raised /\ pc' = "done"
            [] v.how = "by_id" ->
                  result' = Accept(v.team, parsed, <<"Selected by ID.">>) /\ pc' = "done"
            [] v.how = "by_name" ->
                  result' = Accept(v.team, parsed, <<"Selected by name.">>) /\ pc' = "done"
            [] OTHER -> result' = result /\ pc' = "retry_attempt"
    /\ UNCHANGED <<store, locals, traffic, response>>

\* _retry_llm_assignment: the second chat-completion call and its parse.
RetryAttempt ==
    /\ pc = "retry_attempt"
    /\ \E raw \in ModelOutputs :
          /\ llm_calls' = Append(llm_calls,
                                 RetryPrompt(QueryText(req.subject, req.body), candidates))
          /\ llm_outputs' = Append(llm_outputs, raw)
          /\ retry_parsed' = safe_parse_json(raw)
    /\ pc' = "validate_2"
    /\ UNCHANGED <<store, req, candidates, user_msg, parsed, embed_calls,
                   retrieval_calls, retrieval, result, response>>

\* Validate2 asking the model again instead of giving up.
Validate2Again ==
    /\ pc = "validate_2"
    /\ LET v == validate(retry_parsed, candidates)
       IN CASE v.how = "raised" -> result' = Raised /\ pc' = "done"
            [] v.how = "by_id" ->
                  /\ result' = Accept(v.team, retry_parsed,
                                      <<"Valid team found after retry (by ID).">>)
                  /\ pc' = "done"
            [] v.how = "by_name" ->
                  /\ result' = Accept(v.team, retry_parsed,
                                      <<"Valid team found after retry (by name).">>)
                  /\ pc' = "done"
            [] OTHER -> result' = result /\ pc' = "retry_attempt"
    /\ UNCHANGED <<store, locals, traffic, response>>

\* Validate2 with the fallback reasoning of the first validation.
Validate2FirstFallback ==
    /\ pc = "validate_2"
    /\ LET v == validate(retry_parsed, candidates)
       IN CASE v.how = "raised" -> result' = Raised
            [] v.how = "by_id" ->
                  result' = Accept(v.team, retry_parsed, <<"Selected by ID.">>)
            [] v.how = "by_name" ->
                  result' = Accept(v.team, retry_parsed, <<"Selected by name.">>)
            [] OTHER -> result' = FailedTwice
    /\ pc' = "done"
    /\ UNCHANGED <<store, locals, traffic, response>>

\* _validate_or_retry after the retry: accept, or give up.
Validate2 ==
    /\ pc = "validate_2"
    /\ LET v == validate(retry_parsed, candidates)
       IN CASE v.how = "raised" -> result' = Raised
            [] v.how = "by_id" ->
                  result' = Accept(v.team, retry_parsed,
                                   <<"Valid team found after retry (by ID).">>)
            [] v.how = "by_name" ->
                  result' = Accept(v.team, retry_parsed,
                                   <<"Valid team found after retry (by name).">>)
            [] OTHER -> result' = FailedTwice
    /\ pc' = "done"
    /\ UNCHANGED <<store, locals, traffic, response>>

\* Another client changes the teams table while the request runs: it
\* deletes a team no ticket references, or inserts one with a new id.
\* The request reads the table when it loads the candidates and when it
\* retrieves the neighbours; a change after the retrieval is read by no
\* later step, so one position after it stands for all of them.
TeamsChange ==
    /\ pc \in {"build_context", "first_attempt"}
    /\ team_changes < MaxTeamChanges
    /\ \E tm \in TeamPool :
          \/ /\ tm \in teams
             /\ \A i \in TicketIds : tickets[i].assigned_team_id # tm.team_id
             /\ teams' = teams \ {tm}
          \/ /\ \A other \in teams : other.team_id # tm.team_id
             /\ teams' = teams \cup {tm}
    /\ team_changes' = team_changes + 1
    /\ UNCHANGED <<tickets, chunks, pc, locals, traffic, result, response>>

Next ==
    \/ LoadTeams
    \/ BuildContext
    \/ FirstAttempt
    \/ Validate1
    \/ RetryAttempt
    \/ Validate2
    \/ TeamsChange

Spec == Init /\ [][Next]_vars

\* ------------------------------------------------------------------------
\* SolutionAgent (app/solution_agent.py): the actionability filter
\* ------------------------------------------------------------------------
\* An answer is written one character per atom, so Len is Python's len().
MinActionableLen == 40

\* s or "" for a nullable str.
OrEmpty(v) == IF Truthy(v) THEN v.s ELSE <<>>

\* re.search of a literal: pat occurs in s.
Contains(s, pat) ==
    \E i \in 1..(Len(s) - Len(pat) + 1) : SubSeq(s, i, i + Len(pat) - 1) = pat

\* re.search of reach\s*out: "reach", any run of whitespace, "out".
ContainsReachOut(s) ==
    LET reach == <<"r", "e", "a", "c", "h">>
        out == <<"o", "u", "t">>
    IN \E i \in 1..Len(s) : \E j \in (i + Len(reach))..Len(s) :
          /\ SubSeq(s, i, i + Len(reach) - 1) = reach
          /\ \A k \in (i + Len(reach))..(j - 1) : IsSpace(s[k])
          /\ j + Len(out) - 1 <= Len(s)
          /\ SubSeq(s, j, j + Len(out) - 1) = out

\* CONTACT_RE.search(answer), compiled with re.I.
CONTACT_RE(answer) ==
    LET s == lower(answer)
    IN \/ Contains(s, <<"c", "o", "n", "t", "a", "c", "t">>)
       \/ Contains(s, <<"c", "a", "l", "l">>)
       \/ Contains(s, <<"e", "m", "a", "i", "l">>)
       \/ ContainsReachOut(s)
       \/ Contains(s, <<"o", "p", "e", "n", " ", "a", " ", "t", "i", "c", "k", "e", "t">>)
       \/ Contains(s, <<"s", "e", "r", "v", "i", "c", "e", " ", "d", "e", "s", "k">>)

\* _is_actionable measuring the answer as stored, without strip().
is_actionable_unstripped(answer) ==
    IF answer = <<>> THEN FALSE
    ELSE IF Len(answer) < MinActionableLen THEN FALSE
    ELSE ~CONTACT_RE(answer)

_is_actionable(answer) ==
    IF answer = <<>> THEN FALSE
    ELSE IF Len(strip(answer)) < MinActionableLen THEN FALSE
    ELSE ~CONTACT_RE(answer)

\* ------------------------------------------------------------------------
\* SolutionAgent: parsing the model output
\* ------------------------------------------------------------------------
SolutionDict(solution) == [solution |-> solution]

\* _strip_fences: strip; when the text starts with a fence, drop it with its
\* language tag and the whitespace after it, then a closing fence with the
\* whitespace before it; strip again.
_strip_fences(toks) ==
    LET a == StripWs(toks)
        b == LStripWs(Tail(a))
        c == IF b # <<>> /\ b[Len(b)].k = "fence" /\ b[Len(b)].s = <<>>
             THEN RStripWs(SubSeq(b, 1, Len(b) - 1)) ELSE b
    IN IF a # <<>> /\ Head(a).k = "fence" THEN StripWs(c) ELSE a

\* _safe_parse_json on the text of a str output: what json.loads decoded,
\* directly or from the brace-delimited part, else {"solution": s}.
_safe_parse_json(toks) ==
    LET s == _strip_fences(toks)
        direct == JsonLoads(s)
        m == ReSearchBraces(s)
    IN IF direct.ok THEN direct.v
       ELSE IF m.found /\ JsonLoads(m.toks).ok THEN JsonLoads(m.toks).v
       ELSE PyDict(SolutionDict(Str(Render(s))))

\* ------------------------------------------------------------------------
\* SolutionAgent: prompt and returned record
\* ------------------------------------------------------------------------
\* dict.get(key, default) on a decoded object, whatever its keys.
GetOr(d, key, default) ==
    IF key \in DOMAIN d /\ d[key].t # "absent" THEN d[key] ELSE default

\* query_text = f"Subject: {subject or ''}\nBody: {body or ''}".strip()
SolutionQueryText(subject, body) ==
    strip(<<"Subject:", " ">> \o OrEmpty(subject)
          \o <<"\n", "Body:", " ">> \o OrEmpty(body))

\* One entry of lines: the neighbour's ticket id, title and answer.
ContextLine(r) ==
    [ticket_id |-> r.ticket_id,
     title |-> IF r.title = <<>> THEN <<"N/A">> ELSE r.title,
     answer |-> OrEmpty(r.answer)]

\* One entry of sources.
Source(r) == [ticket_id |-> r.ticket_id, title |-> r.title, score |-> r.score]

\* The rows whose answer passes the filter, in retrieval order.
ActionableRows(sims) ==
    SelectSeq(sims, LAMBDA r : _is_actionable(OrEmpty(r.answer)))

\* What the prompt carries: the query text and the context block (no line
\* stands for "No actionable prior solutions.").
SolutionPrompt(query_text, sims) ==
    [kind |-> "solution",
     query_text |-> query_text,
     context |-> [i \in DOMAIN ActionableRows(sims) |->
                    ContextLine(ActionableRows(sims)[i])]]

\* Sources with an entry for every retrieved row.
SourcesOfAll(sims) ==
    [i \in DOMAIN sims |-> Source(sims[i])]

\* The sources list: one entry per row that passed the filter.
Sources(sims) ==
    [i \in DOMAIN ActionableRows(sims) |-> Source(ActionableRows(sims)[i])]

SolutionRecord(solution, sources) ==
    [kind |-> "returned", d |-> [solution |-> solution, sources |-> sources]]

NoDetails ==
    SolutionRecord(
        Str(<<"No subject/body found for this ticket. Please provide details.">>),
        <<>>)

NoSolution == <<"No solution generated.">>

\* ------------------------------------------------------------------------
\* SolutionAgent: inputs
\* ------------------------------------------------------------------------
Pad(n) == [i \in 1..n |-> "x"]
Blank(n) == [i \in 1..n |-> " "]

Restart == <<"r", "e", "s", "t", "a", "r", "t">>

\* Stored answers: of MinActionableLen characters and one less, padded with
\* blanks, blank only, and with each kind of deflection wording.
Answers ==
    {None,
     Str(<<>>),
     Str(Restart \o Pad(MinActionableLen - Len(Restart))),
     Str(Restart \o Pad(MinActionableLen - Len(Restart) - 1)),
     Str(<<" ">> \o Restart \o Pad(MinActionableLen - Len(Restart) - 1) \o <<" ">>),
     Str(Blank(MinActionableLen)),
     Str(<<"C", "o", "n", "t", "a", "c", "t">> \o Pad(MinActionableLen)),
     Str(Pad(MinActionableLen) \o <<"r", "e", "c", "a", "l", "l">>),
     Str(<<"E", "M", "A", "I", "L">> \o Pad(MinActionableLen)),
     Str(<<"r", "e", "a", "c", "h", " ", "o", "u", "t">> \o Pad(MinActionableLen)),
     Str(<<"r", "e", "a", "c", "h", "o", "u", "t">> \o Pad(MinActionableLen)),
     Str(<<"r", "e", "a", "c", "h", "\n", " ", "O", "u", "t">> \o Pad(MinActionableLen)),
     Str(<<"o", "p", "e", "n", " ", "a", " ", "t", "i", "c", "k", "e", "t">>
         \o Pad(MinActionableLen)),
     Str(<<"s", "e", "r", "v", "i", "c", "e", " ", "d", "e", "s", "k">>
         \o Pad(MinActionableLen)),
     Str(<<"s", "e", "r", "v", "i", "c", "e", " ", " ", "d", "e", "s", "k">>
         \o Pad(MinActionableLen))}

\* The tickets table with ticket 1 answered by a1 and ticket 2 by a2.
AnswerTable(a1, a2) ==
    [i \in TicketIds |->
        [TicketTable(None)[i] EXCEPT !.answer = IF i = 1 THEN a1 ELSE a2]]

SolutionTickets ==
    {AnswerTable(a1, a2) :
        a1 \in {None, Str(Restart \o Pad(MinActionableLen))}, a2 \in Answers}

\* The subject or body argument of generate_solution: the stored text, an
\* empty str or None.
TextArgs(stored) == {Str(stored), Str(<<>>), None}

Steps == <<"1. restart the router">>

SolutionObject(solution) == <<LBrace, Members(SolutionDict(solution)), RBrace>>

\* What the chat-completion endpoint may return for a solution prompt.
SolutionOutputs ==
    {Content(SolutionObject(Str(Steps))),
     Content(SolutionObject(Absent)),
     Content(SolutionObject(Str(<<>>))),
     Content(SolutionObject(None)),
     Content(SolutionObject(Num(7))),
     Content(<<LBrace, RBrace>>),
     Content(<<FenceJson, Ws, LBrace, Members(SolutionDict(Str(Steps))), RBrace,
               Ws, Fence>>),
     Content(<<LBrace, Members(SolutionDict(Str(Steps))), RBrace, Ws, Fence>>),
     Content(<<Text(<<"Here:">>), Ws, LBrace, Members(SolutionDict(Str(Steps))),
               RBrace>>),
     Content(<<Text(<<"restart it">>)>>),
     Content(<<Ws, Text(<<"restart it">>), Ws>>),
     Content(<<Fence, Ws, Text(<<"restart it">>), Ws, Fence>>),
     Content(<<LBrace, Text(<<"oops">>), RBrace>>),
     Content(<<>>),
     Content(<<Ws>>),
     Content(<<Lit("list")>>),
     Content(<<Lit("num")>>),
     NoContent}

\* ------------------------------------------------------------------------
\* generate_solution, step by step
\* ------------------------------------------------------------------------
\* No request is running.
Idle ==
    /\ pc = "idle"
    /\ req = NoRequest
    /\ candidates = <<>>
    /\ user_msg = NoPrompt
    /\ llm_calls = <<>>
    /\ llm_outputs = <<>>
    /\ embed_calls = 0
    /\ retrieval_calls = 0
    /\ retrieval = NoRetrieval
    /\ parsed = PyOther("none")
    /\ retry_parsed = PyOther("none")
    /\ result = Pending
    /\ response = NoResponse

SolutionInit ==
    /\ teams = {Team(Str(T1), Str(Network))}
    /\ tickets \in SolutionTickets
    /\ chunks \in ChunkTables
    /\ team_changes = 0
    /\ Idle

\* generate_solution is called: it composes query_text and returns the
\* static advice when query_text is empty.
GenerateSolution ==
    /\ pc = "idle"
    /\ \E ticket_id \in TicketIds, top_k \in {1, MaxTopK} :
          \E subject \in TextArgs(tickets[ticket_id].subject),
             body \in TextArgs(tickets[ticket_id].body) :
             /\ req' = [ticket_id |-> ticket_id, subject |-> subject,
                        body |-> body, top_k |-> top_k]
             /\ IF SolutionQueryText(subject, body) = <<>>
                THEN result' = NoDetails /\ pc' = "done"
                ELSE result' = result /\ pc' = "solution_context"
    /\ UNCHANGED <<store, candidates, user_msg, parsed, retry_parsed, traffic,
                   response>>

\* Embeds the query, retrieves the neighbours, filters their answers and
\* composes the prompt.
SolutionContext ==
    /\ pc = "solution_context"
    /\ LET query_text == SolutionQueryText(req.subject, req.body)
           qvec == embed_text(query_text)
       IN \E sims \in top_k_similar(teams, tickets, chunks, qvec, req.top_k,
                                    Num(req.ticket_id)) :
             /\ user_msg' = SolutionPrompt(query_text, sims)
             /\ retrieval' = Retrieval(qvec, req.top_k, Num(req.ticket_id), sims)
    /\ embed_calls' = embed_calls + 1
    /\ retrieval_calls' = retrieval_calls + 1
    /\ pc' = "solution_call"
    /\ UNCHANGED <<store, req, candidates, parsed, retry_parsed, llm_calls,
                   llm_outputs, result, response>>

\* The chat-completion call and the parse of its output; content that is
\* None has no strip(): AttributeError.
SolutionCall ==
    /\ pc = "solution_call"
    /\ \E raw \in SolutionOutputs :
          /\ llm_calls' = Append(llm_calls, user_msg)
          /\ llm_outputs' = Append(llm_outputs, raw)
          /\ IF raw.isstr
             THEN /\ parsed' = _safe_parse_json(raw.toks)
                  /\ result' = result
                  /\ pc' = "solution_return"
             ELSE /\ parsed' = parsed
                  /\ result' = Raised
                  /\ pc' = "done"
    /\ UNCHANGED <<store, req, candidates, user_msg, retry_parsed, embed_calls,
                   retrieval_calls, retrieval, response>>

\* parsed.get("solution") or "No solution generated."; a decoded value
\* that is no dict has no get(): AttributeError.
SolutionReturn ==
    /\ pc = "solution_return"
    /\ IF parsed.t # "dict"
       THEN result' = Raised
       ELSE LET solution == GetOr(parsed.d, "solution", None)
            IN result' = SolutionRecord(
                             IF Truthy(solution) THEN solution ELSE Str(NoSolution),
                             Sources(retrieval.rows))
    /\ pc' = "done"
    /\ UNCHANGED <<store, locals, traffic, response>>

SolutionNext ==
    \/ GenerateSolution
    \/ SolutionContext
    \/ SolutionCall
    \/ SolutionReturn

SpecSolution == SolutionInit /\ [][SolutionNext]_vars

\* ------------------------------------------------------------------------
\* llm_grade_solution (app/evaluation.py)
\* ------------------------------------------------------------------------
\* Similarities are counted in hundredths: 1.0 is 100.  A str is a numeral
\* when it is an optional "-", digits and at most two decimals.
DigitChars == <<"0", "1", "2", "3", "4", "5", "6", "7", "8", "9">>

IsNumeral(s) ==
    LET body == IF s # <<>> /\ Head(s) = "-" THEN Tail(s) ELSE s
        dots == {i \in DOMAIN body : body[i] = "."}
    IN /\ body # <<>>
       /\ \A i \in DOMAIN body \ dots : \E d \in DOMAIN DigitChars : DigitChars[d] = body[i]
       /\ \/ dots = {}
          \/ \E p \in dots : dots = {p} /\ 1 < p /\ p < Len(body) /\ Len(body) - p <= 2

RECURSIVE NumeralValue(_)
NumeralValue(s) ==
    LET digit(c) == (CHOOSE d \in DOMAIN DigitChars : DigitChars[d] = c) - 1
        RECURSIVE whole(_)
        whole(ds) == IF ds = <<>> THEN 0
                     ELSE 10 * whole(SubSeq(ds, 1, Len(ds) - 1)) + digit(ds[Len(ds)])
        dots == {i \in DOMAIN s : s[i] = "."}
        p == IF dots = {} THEN Len(s) + 1 ELSE CHOOSE i \in dots : TRUE
        frac == SubSeq(s, p + 1, Len(s))
    IN IF s # <<>> /\ Head(s) = "-" THEN 0 - NumeralValue(Tail(s))
       ELSE 100 * whole(SubSeq(s, 1, p - 1))
            + (IF Len(frac) = 1 THEN 10 * whole(frac) ELSE whole(frac))

\* float(v): a number, or a str that is a numeral; TypeError for None,
\* ValueError for any other str.
float_raises(v) == ~(v.t = "num" \/ (v.t = "str" /\ IsNumeral(v.s)))

float(v) == IF v.t = "num" THEN v.n ELSE NumeralValue(v.s)

One == 100
FallbackGood == 80
FallbackPartial == 40

\* max(0.0, min(1.0, similarity))
Clamp(x) == IF x < 0 THEN 0 ELSE IF x > One THEN One ELSE x

JudgeDict(similarity, category, explanation) ==
    [similarity |-> similarity, category |-> category, explanation |-> explanation]

JudgeRecord(similarity, category, explanation) ==
    [kind |-> "returned", d |-> JudgeDict(similarity, category, explanation)]

Labels == {<<"g", "ood_match">>, <<"p", "artial_match">>, <<"m", "ismatch">>}

EmptyNote == <<"One of the solutions is empty; cannot compare meaningfully.">>

\* The reference_solution and generated_solution arguments.
SolutionTexts ==
    {None, Str(<<>>), Str(<<" ">>), Str(<<"restart it">>),
     Str(<<" ", "restart it", "\n">>)}

\* What the chat-completion endpoint may return for a grading prompt.
JudgeOutputs ==
    {Content(<<LBrace, Members(JudgeDict(similarity, category, Str(<<"why">>))), RBrace>>) :
        similarity \in {Num(0 - 30), Num(0), Num(30), Num(40), Num(59), Num(80),
                        Num(One), Num(170), Absent, None, Str(<<"h", "i", "g", "h">>),
                        Str(<<"0", ".", "7">>), Str(<<"-", "1", ".", "5">>), Str(<<>>)},
        category \in {Str(<<"g", "ood_match">>), Str(<<" ", "M", "ismatch", " ">>),
                      Str(<<"excellent">>), Absent, Num(7)}}
    \cup {Content(<<LBrace, RBrace>>),
          Content(<<FenceJson, Ws, LBrace, RBrace, Ws, Fence>>),
          Content(<<Text(<<"no idea">>)>>),
          Content(<<>>),
          Content(<<Lit("list")>>),
          NoContent}

JudgeInit ==
    /\ teams = {Team(Str(T1), Str(Network))}
    /\ tickets = TicketTable(None)
    /\ chunks = <<>>
    /\ team_changes = 0
    /\ Idle

\* GradeSolution comparing the arguments as given, without strip().
GradeSolutionUnstripped ==
    /\ pc = "idle"
    /\ \E ticket_id \in TicketIds, reference_solution \in SolutionTexts,
          generated_solution \in SolutionTexts :
          /\ req' = [ticket_id |-> ticket_id,
                     subject |-> tickets[ticket_id].subject,
                     body |-> tickets[ticket_id].body,
                     reference_solution |-> reference_solution,
                     generated_solution |-> generated_solution]
          /\ IF ~Truthy(reference_solution) \/ ~Truthy(generated_solution)
             THEN /\ result' = JudgeRecord(0, <<"m", "ismatch">>, EmptyNote)
                  /\ pc' = "done"
             ELSE /\ result' = result
                  /\ pc' = "judge_call"
    /\ UNCHANGED <<store, candidates, user_msg, parsed, retry_parsed, traffic,
                   response>>

\* llm_grade_solution is called: with a solution that is empty after
\* strip() it returns the mismatch record.
GradeSolution ==
    /\ pc = "idle"
    /\ \E ticket_id \in TicketIds, reference_solution \in SolutionTexts,
          generated_solution \in SolutionTexts :
          /\ req' = [ticket_id |-> ticket_id,
                     subject |-> tickets[ticket_id].subject,
                     body |-> tickets[ticket_id].body,
                     reference_solution |-> reference_solution,
                     generated_solution |-> generated_solution]
          /\ IF strip(OrEmpty(reference_solution)) = <<>>
                \/ strip(OrEmpty(generated_solution)) = <<>>
             THEN /\ result' = JudgeRecord(0, <<"m", "ismatch">>, EmptyNote)
                  /\ pc' = "done"
             ELSE /\ result' = result
                  /\ pc' = "judge_call"
    /\ UNCHANGED <<store, candidates, user_msg, parsed, retry_parsed, traffic,
                   response>>

\* The grading call and json.loads of its content; any decode error gives
\* the "Could not parse" record.
JudgeCall ==
    /\ pc = "judge_call"
    /\ \E raw \in JudgeOutputs :
          LET data == JsonLoads(raw.toks)
          IN /\ llm_calls' = Append(llm_calls,
                    [kind |-> "judge",
                     reference_solution |-> strip(OrEmpty(req.reference_solution)),
                     generated_solution |-> strip(OrEmpty(req.generated_solution))])
             /\ llm_outputs' = Append(llm_outputs, raw)
             /\ IF raw.isstr /\ data.ok
                THEN /\ parsed' = data.v
                     /\ result' = result
                     /\ pc' = "judge_grade"
                ELSE /\ parsed' = parsed
                     /\ result' = JudgeRecord(0, <<"m", "ismatch">>,
                                              <<"Could not parse judge response: ">>
                                                  \o (IF raw.isstr THEN Render(raw.toks)
                                                      ELSE <<"None">>))
                     /\ pc' = "done"
    /\ UNCHANGED <<store, req, candidates, user_msg, retry_parsed, embed_calls,
                   retrieval_calls, retrieval, response>>

\* Normalises the decoded fields: float and clamp of the similarity, the
\* category or its fallback from the similarity, the explanation.  get on
\* a value that is no dict, float of a value that is no number and strip
\* of a category that is no str raise.
JudgeGrade ==
    /\ pc = "judge_grade"
    /\ LET raw_similarity == GetOr(parsed.d, "similarity", Num(0))
           raw_category == GetOr(parsed.d, "category", None)
           raw_explanation == GetOr(parsed.d, "explanation", None)
           similarity == Clamp(float(raw_similarity))
           category == lower(strip(OrEmpty(raw_category)))
       IN IF \/ parsed.t # "dict"
             \/ float_raises(raw_similarity)
             \/ Truthy(raw_category) /\ raw_category.t # "str"
          THEN result' = Raised
          ELSE result' = JudgeRecord(
                   similarity,
                   IF category \in Labels THEN category
                   ELSE IF similarity >= FallbackGood THEN <<"g", "ood_match">>
                   ELSE IF similarity >= FallbackPartial THEN <<"p", "artial_match">>
                   ELSE <<"m", "ismatch">>,
                   OrEmpty(raw_explanation))
    /\ pc' = "done"
    /\ UNCHANGED <<store, locals, traffic, response>>

JudgeNext ==
    \/ GradeSolution
    \/ JudgeCall
    \/ JudgeGrade

SpecJudge == JudgeInit /\ [][JudgeNext]_vars

\* ------------------------------------------------------------------------
\* top_k_similar called on its own, and by the two agents
\* ------------------------------------------------------------------------
MaxChunks == 3

\* The ticket_embeddings tables of at most MaxChunks chunks: ids in
\* insertion order, any ticket, any of three vectors.
RetrievalChunks ==
    UNION {{[i \in 1..n |-> Chunk(i, f[i][1], f[i][2])] :
               f \in [1..n -> TicketIds \X {5, 7, 9}]} : n \in 0..MaxChunks}

RetrievalInit ==
    /\ teams = {Team(Str(T1), Str(Network))}
    /\ tickets = TicketTable(Str(T1))
    /\ chunks \in RetrievalChunks
    /\ team_changes = 0
    /\ Idle

\* top_k_similar(qvec, top_k, exclude_ticket_id) with any arguments: a
\* stored ticket's id, an id no ticket has, or None.
TopKSimilar ==
    /\ pc = "idle"
    /\ \E qvec \in {6, 8}, top_k \in 1..MaxTopK,
          exclude_ticket_id \in {None} \cup {Num(i) : i \in TicketIds \cup {3}} :
          \E rows \in top_k_similar(teams, tickets, chunks, qvec, top_k,
                                    exclude_ticket_id) :
             retrieval' = Retrieval(qvec, top_k, exclude_ticket_id, rows)
    /\ retrieval_calls' = retrieval_calls + 1
    /\ pc' = "done"
    /\ UNCHANGED <<store, locals, llm_calls, llm_outputs, embed_calls, result,
                   response>>

\* The direct call, and the two agents up to the call they make.
RetrievalNext ==
    \/ TopKSimilar
    \/ LoadTeams
    \/ BuildContext
    \/ GenerateSolution
    \/ SolutionContext

SpecRetrieval == RetrievalInit /\ [][RetrievalNext]_vars

\* ------------------------------------------------------------------------
\* The /assign and /solution handlers
\* ------------------------------------------------------------------------
MaxRequests == 2

\* The response to request number seq of a client.  status 0: the handler
\* is still running.
Response(route, status, seq, body) ==
    [route |-> route, status |-> status, seq |-> seq, body |-> body]

\* The ticket_embeddings tables ensure_indexed may leave: a ticket with a
\* body and no chunk gets one chunk (the body is shorter than chunk_size);
\* a failure of the indexer rolls back and is skipped by the handler.
ensure_indexed(tks, tes, ticket_id) ==
    IF /\ tks[ticket_id].body # <<>>
       /\ \A i \in DOMAIN tes : tes[i].ticket_id # ticket_id
    THEN {tes, Append(tes, Chunk(Len(tes) + 1, ticket_id,
                                 embed_text(tks[ticket_id].body)))}
    ELSE {tes}

\* update_suggested_team writing the confirmed column.
update_assigned_team(table, tks, ticket_id, team_id) ==
    IF /\ \E tm \in table : tm.team_id = team_id
       /\ ticket_id \in DOMAIN tks
    THEN [tks EXCEPT ![ticket_id].assigned_team_id = team_id]
    ELSE tks

\* The tickets table after update_suggested_team: unchanged (False) when
\* the team or the ticket does not exist.
update_suggested_team(table, tks, ticket_id, team_id) ==
    IF /\ \E tm \in table : tm.team_id = team_id
       /\ ticket_id \in DOMAIN tks
    THEN [tks EXCEPT ![ticket_id].suggested_assigned_team_id = team_id]
    ELSE tks

\* The tickets table after update_suggested_answer.
update_suggested_answer(tks, ticket_id, solution_text) ==
    IF ticket_id \in DOMAIN tks
    THEN [tks EXCEPT ![ticket_id].suggested_answer = solution_text]
    ELSE tks

\* Teams, tickets with and without an actionable answer, chunks.
ApiInit ==
    /\ teams \in {{}, {Team(Str(T1), Str(Network))}}
    /\ tickets \in {TicketTable(id) : id \in {None} \cup {tm.team_id : tm \in teams}}
                      \cup {AnswerTable(None, Str(Restart \o Pad(MinActionableLen)))}
    /\ chunks \in ChunkTables
    /\ team_changes = 0
    /\ Idle

\* A handler that has answered keeps nothing of its request: the locals
\* and call logs of the next request start empty.
HandlerReturns ==
    /\ pc' = "responded"
    /\ req' = NoRequest
    /\ candidates' = <<>>
    /\ user_msg' = NoPrompt
    /\ parsed' = PyOther("none")
    /\ retry_parsed' = PyOther("none")
    /\ llm_calls' = <<>>
    /\ llm_outputs' = <<>>
    /\ embed_calls' = 0
    /\ retrieval_calls' = 0
    /\ retrieval' = NoRetrieval
    /\ result' = Pending

\* POST /assign: 404 for an unknown ticket, else ensure_indexed and the
\* call of assign_team with the stored subject and body.
Assign ==
    /\ pc \in {"idle", "responded"}
    /\ response.seq < MaxRequests
    /\ \E ticket_id \in TicketIds \cup {3}, top_k \in {1, MaxTopK} :
          IF ticket_id \notin DOMAIN tickets
          THEN /\ req' = req
               /\ response' = Response("assign", 404, response.seq + 1, None)
               /\ chunks' = chunks
               /\ pc' = "responded"
          ELSE /\ req' = [ticket_id |-> ticket_id,
                          subject |-> tickets[ticket_id].subject,
                          body |-> tickets[ticket_id].body,
                          top_k |-> top_k]
               /\ response' = Response("assign", 0, response.seq + 1, None)
               /\ chunks' \in ensure_indexed(tickets, chunks, ticket_id)
               /\ pc' = "assign_team"
    /\ UNCHANGED <<teams, tickets, team_changes, candidates, user_msg, parsed,
                   retry_parsed, traffic, result>>

\* assign_team loads the candidates; with no team it returns.
AssignTeam ==
    /\ pc = "assign_team"
    /\ \E rows \in load_all_teams(teams) :
          /\ candidates' = rows
          /\ IF rows = <<>>
             THEN result' = NoTeamsFound /\ pc' = "done"
             ELSE result' = result /\ pc' = "build_context"
    /\ UNCHANGED <<store, req, user_msg, parsed, retry_parsed, traffic, response>>

\* The rest of /assign: an exception of assign_team propagates; an empty
\* id is answered without a write, any other id is written by
\* update_suggested_team.  AssignResponse is not a name of app.main: both
\* return statements raise NameError.
AssignPersist ==
    /\ pc = "done"
    /\ response.route = "assign"
    /\ tickets' = IF result.kind = "returned" /\ Truthy(result.d.assigned_team_id)
                  THEN update_suggested_team(teams, tickets, req.ticket_id,
                                             result.d.assigned_team_id)
                  ELSE tickets
    /\ response' = Response("assign", 500, response.seq, None)
    /\ HandlerReturns
    /\ UNCHANGED <<teams, chunks, team_changes>>

\* POST /solution: 404 for an unknown ticket, else ensure_indexed and the
\* call of generate_solution with the stored subject and body.
Solution ==
    /\ pc \in {"idle", "responded"}
    /\ response.seq < MaxRequests
    /\ \E ticket_id \in TicketIds \cup {3}, top_k \in {1, MaxTopK} :
          IF ticket_id \notin DOMAIN tickets
          THEN /\ req' = req
               /\ response' = Response("solution", 404, response.seq + 1, None)
               /\ chunks' = chunks
               /\ pc' = "responded"
          ELSE /\ req' = [ticket_id |-> ticket_id,
                          subject |-> Str(tickets[ticket_id].subject),
                          body |-> Str(tickets[ticket_id].body),
                          top_k |-> top_k]
               /\ response' = Response("solution", 0, response.seq + 1, None)
               /\ chunks' \in ensure_indexed(tickets, chunks, ticket_id)
               /\ pc' = "generate_solution"
    /\ UNCHANGED <<teams, tickets, team_changes, candidates, user_msg, parsed,
                   retry_parsed, traffic, result>>

\* generate_solution composes query_text and returns the static advice
\* when query_text is empty.
GenerateSolutionFor ==
    /\ pc = "generate_solution"
    /\ IF SolutionQueryText(req.subject, req.body) = <<>>
       THEN result' = NoDetails /\ pc' = "done"
       ELSE result' = result /\ pc' = "solution_context"
    /\ UNCHANGED <<store, locals, traffic, response>>

\* The rest of /solution: an exception of generate_solution propagates;
\* SolutionSource is not a name of app.main, so a non-empty source list
\* raises NameError before the write; else update_suggested_answer writes
\* the solution, and SolutionResponse raises NameError.
SolutionPersist ==
    /\ pc = "done"
    /\ response.route = "solution"
    /\ tickets' = IF result.kind = "returned" /\ result.d.sources = <<>>
                  THEN update_suggested_answer(tickets, req.ticket_id,
                                               result.d.solution)
                  ELSE tickets
    /\ response' = Response("solution", 500, response.seq, None)
    /\ HandlerReturns
    /\ UNCHANGED <<teams, chunks, team_changes>>

\* The steps of the two handlers, one request after the other; no other
\* client writes to the store meanwhile.
ApiNext ==
    \/ Assign
    \/ AssignTeam
    \/ BuildContext
    \/ FirstAttempt
    \/ Validate1
    \/ RetryAttempt
    \/ Validate2
    \/ AssignPersist
    \/ Solution
    \/ GenerateSolutionFor
    \/ SolutionContext
    \/ SolutionCall
    \/ SolutionReturn
    \/ SolutionPersist

SpecApi == ApiInit /\ [][ApiNext]_vars

\* ------------------------------------------------------------------------
\* The handlers when the embedding model or the vector search fails
\* ------------------------------------------------------------------------
\* embed_text or top_k_similar raises (the embedding model or the database
\* is unavailable).  Neither assign_team nor generate_solution calls them
\* inside a try block: the exception leaves the agent.
RetrievalFails ==
    /\ pc \in {"build_context", "solution_context"}
    /\ embed_calls' = embed_calls + 1
    /\ retrieval_calls' \in {retrieval_calls, retrieval_calls + 1}
    /\ result' = Raised
    /\ pc' = "done"
    /\ UNCHANGED <<store, locals, llm_calls, llm_outputs, retrieval, response>>

\* The handlers up to the first prompt, with retrieval that may fail.
OutageNext ==
    \/ Assign
    \/ AssignTeam
    \/ BuildContext
    \/ Solution
    \/ GenerateSolutionFor
    \/ SolutionContext
    \/ RetrievalFails
    \/ AssignPersist
    \/ SolutionPersist

SpecOutage == ApiInit /\ [][OutageNext]_vars

\* ------------------------------------------------------------------------
\* assign_team up to its first prompt, with many teams
\* ------------------------------------------------------------------------
\* Seven teams whose names start with different letters: one more than a
\* neighbour team plus BackupLimit others.
PromptTeams ==
    {Team(Str(<<"T", "1">>), Str(<<"A", "ccess">>)),
     Team(Str(<<"T", "2">>), Str(<<"B", "illing">>)),
     Team(Str(<<"T", "3">>), Str(<<"C", "loud">>)),
     Team(Str(<<"T", "4">>), Str(<<"D", "esktop">>)),
     Team(Str(<<"T", "5">>), Str(<<"E", "mail">>)),
     Team(Str(<<"T", "6">>), Str(<<"F", "inance">>)),
     Team(Str(<<"T", "7">>), Str(<<"G", "ateway">>))}

\* Ticket 2 was resolved by any of the teams, or by none.
PromptInit ==
    /\ teams = PromptTeams
    /\ tickets \in {TicketTable(id) : id \in {None} \cup {tm.team_id : tm \in teams}}
    /\ chunks \in ChunkTables
    /\ team_changes = 0
    /\ Idle

PromptNext ==
    \/ LoadTeams
    \/ BuildContext

SpecPrompt == PromptInit /\ [][PromptNext]_vars

\* ------------------------------------------------------------------------
\* update_suggested_team statement by statement
\* ------------------------------------------------------------------------
\* One team, the tickets without a confirmed team, any chunk table.
PersistInit ==
    /\ teams = {Team(Str(T1), Str(Network))}
    /\ tickets = TicketTable(None)
    /\ chunks \in ChunkTables
    /\ team_changes = 0
    /\ Idle

\* The handler after assign_team, up to the two SELECTs of
\* update_suggested_team: an exception or an empty id ends the request
\* without a write; update_suggested_team returns False when the team or
\* the ticket is not found, and goes on to the write otherwise.
SuggestedTeamCheck ==
    /\ pc = "done"
    /\ response.route = "assign"
    /\ IF /\ result.kind = "returned"
          /\ Truthy(result.d.assigned_team_id)
          /\ \E tm \in teams : tm.team_id = result.d.assigned_team_id
          /\ req.ticket_id \in DOMAIN tickets
       THEN /\ pc' = "update_suggested_team"
            /\ UNCHANGED <<locals, traffic, result, response>>
       ELSE /\ response' = Response("assign", 500, response.seq, None)
            /\ HandlerReturns
    /\ UNCHANGED store

\* The assignment of the column and the commit, then the handler's return
\* statement (NameError).  The column has no foreign key.
SuggestedTeamWrite ==
    /\ pc = "update_suggested_team"
    /\ tickets' = [tickets EXCEPT ![req.ticket_id].suggested_assigned_team_id =
                                      result.d.assigned_team_id]
    /\ response' = Response("assign", 500, response.seq, None)
    /\ HandlerReturns
    /\ UNCHANGED <<teams, chunks, team_changes>>

\* Another client of the database deletes a team no ticket is assigned to,
\* after the request loaded its candidates or while update_suggested_team
\* is between its SELECT and its commit.
TeamRemoved ==
    /\ pc \in {"build_context", "update_suggested_team"}
    /\ team_changes < MaxTeamChanges
    /\ \E tm \in teams :
          /\ \A i \in TicketIds : tickets[i].assigned_team_id # tm.team_id
          /\ teams' = teams \ {tm}
    /\ team_changes' = team_changes + 1
    /\ UNCHANGED <<tickets, chunks, pc, locals, traffic, result, response>>

PersistNext ==
    \/ Assign
    \/ AssignTeam
    \/ BuildContext
    \/ FirstAttempt
    \/ Validate1
    \/ RetryAttempt
    \/ Validate2
    \/ SuggestedTeamCheck
    \/ SuggestedTeamWrite
    \/ TeamRemoved

SpecPersist == PersistInit /\ [][PersistNext]_vars

\* ------------------------------------------------------------------------
\* ensure_indexed called by two requests at once
\* ------------------------------------------------------------------------
\* The handlers are plain functions: the server runs them on the threads of
\* a pool, so two requests may be inside ensure_indexed together.  In this
\* specification pc and req hold one entry per request thread.
IndexWorkers == {1, 2}

\* Ticket 2 with or without a body; no chunk, or ticket 2 indexed once.
IndexInit ==
    /\ teams = {}
    /\ tickets \in {TicketTable(None), [TicketTable(None) EXCEPT ![2].body = <<>>]}
    /\ chunks \in {<<>>, <<Chunk(1, 2, embed_text(TicketTable(None)[2].body))>>}
    /\ team_changes = 0
    /\ pc = [w \in IndexWorkers |-> "idle"]
    /\ req = [w \in IndexWorkers |-> NoRequest]
    /\ candidates = <<>>
    /\ user_msg = NoPrompt
    /\ llm_calls = <<>>
    /\ llm_outputs = <<>>
    /\ embed_calls = 0
    /\ retrieval_calls = 0
    /\ retrieval = NoRetrieval
    /\ parsed = PyOther("none")
    /\ retry_parsed = PyOther("none")
    /\ result = Pending
    /\ response = NoResponse

\* ensure_indexed up to its decision: it reads the ticket and counts its
\* chunks; it returns 0 for an unknown ticket, an empty body or a ticket
\* that has chunks, and goes on to index_ticket otherwise.
EnsureIndexed(w) ==
    /\ pc[w] \in {"idle", "done"}
    /\ \E ticket_id \in TicketIds \cup {3} :
          LET found == ticket_id \in DOMAIN tickets
              existing == Cardinality({i \in DOMAIN chunks :
                                          chunks[i].ticket_id = ticket_id})
          IN IF found /\ tickets[ticket_id].body # <<>> /\ existing = 0
             THEN /\ req' = [req EXCEPT ![w] = [NoRequest EXCEPT
                                                  !.ticket_id = ticket_id,
                                                  !.body = tickets[ticket_id].body]]
                  /\ pc' = [pc EXCEPT ![w] = "index_ticket"]
             ELSE /\ req' = [req EXCEPT ![w] = NoRequest]
                  /\ pc' = [pc EXCEPT ![w] = "done"]
    /\ UNCHANGED <<store, candidates, user_msg, parsed, retry_parsed, traffic,
                   result, response>>

\* index_ticket: the body is one chunk (it is shorter than chunk_size),
\* inserted with its embedding in a transaction of its own.
IndexTicket(w) ==
    /\ pc[w] = "index_ticket"
    /\ chunks' = Append(chunks, Chunk(Len(chunks) + 1, req[w].ticket_id,
                                      embed_text(req[w].body)))
    /\ pc' = [pc EXCEPT ![w] = "done"]
    /\ UNCHANGED <<teams, tickets, team_changes, locals, traffic, result, response>>

IndexNext ==
    \E w \in IndexWorkers :
        \/ EnsureIndexed(w)
        \/ IndexTicket(w)

SpecIndex == IndexInit /\ [][IndexNext]_vars

\* ------------------------------------------------------------------------
\* Vocabulary of the properties
\* ------------------------------------------------------------------------
Done == pc = "done"
ModelCalls == Len(llm_calls)

\* A field of a model output equals a candidate's field after trimming
\* and case-folding.  A number is equal to no text.
FieldMatches(value, cand, key) ==
    value.t # "num" /\ normalize(value) = normalize(cand[key])

IdHits(record) ==
    {i \in DOMAIN candidates :
        record.t = "dict"
        /\ FieldMatches(get(record.d, "assigned_team_id", Str(<<>>)),
                        candidates[i], "team_id")}

NameHits(record) ==
    {i \in DOMAIN candidates :
        record.t = "dict"
        /\ FieldMatches(get(record.d, "assigned_team_name", Str(<<>>)),
                        candidates[i], "team_name")}

\* The parsed output references some candidate, by id or by name.
Matches(record) == IdHits(record) # {} \/ NameHits(record) # {}

\* The returned decision carries the stored id and name of a candidate
\* among hits.
Names(hits) ==
    /\ result.kind = "returned"
    /\ \E i \in hits :
          /\ result.d.assigned_team_id = candidates[i].team_id
          /\ result.d.assigned_team_name = candidates[i].team_name

\* The output was decoded neither directly nor from its brace-delimited part.
Undecodable(raw) ==
    /\ raw.isstr
    /\ ~JsonLoads(StripFence(raw.toks)).ok
    /\ LET m == ReSearchBraces(StripFence(raw.toks))
       IN ~(m.found /\ JsonLoads(m.toks).ok)

\* ------------------------------------------------------------------------
\* Properties
\* ------------------------------------------------------------------------
\* C1 (closed world): a returned decision with a non-empty assigned_team_id
\* carries the team_id and the team_name of one team of the candidate list
\* loaded at the start of the request, whatever the model returned.
C1_ClosedWorld ==
    (result.kind = "returned" /\ Truthy(result.d.assigned_team_id))
        => Names(DOMAIN candidates)

\* A decision accepted after the retry, for a team that is no longer in
\* the teams table.
C1_Witness ==
    /\ Done
    /\ ModelCalls = 2
    /\ result.kind = "returned"
    /\ Truthy(result.d.assigned_team_id)
    /\ \A tm \in teams : tm.team_id # result.d.assigned_team_id

\* C2 (bounded retry): the chat-completion endpoint is called at most twice
\* in a request: at most one first attempt, then at most one retry.
C2_BoundedRetry ==
    /\ ModelCalls <= 2
    /\ ModelCalls >= 1 => llm_calls[1].kind = "first"
    /\ ModelCalls = 2 => llm_calls[2].kind = "retry"

\* Two invalid outputs: the request ended after the second call.
C2_Witness ==
    /\ Done
    /\ ModelCalls = 2
    /\ ~Matches(parsed)
    /\ ~Matches(retry_parsed)

\* C3 (no-teams short-circuit): when load_all_teams returns the empty list,
\* assign_team returns {"", "Unassigned", "No teams found in database."}
\* without any model, embedding or retrieval call.
C3_NoTeamsShortCircuit ==
    (pc # "idle" /\ candidates = <<>>)
        => /\ Done
           /\ result = NoTeamsFound
           /\ ModelCalls = 0
           /\ embed_calls = 0
           /\ retrieval_calls = 0

C3_Witness == Done /\ candidates = <<>> /\ teams = {} /\ result = NoTeamsFound

\* C4 (double failure): with a non-empty candidate list, when neither the
\* first nor the retry output matches a candidate by normalized id or name,
\* assign_team returns the "Model failed twice" sentinel after exactly two
\* model calls.
C4_DoubleFailure ==
    (/\ Done
     /\ candidates # <<>>
     /\ ~Matches(parsed)
     /\ ModelCalls = 2 => ~Matches(retry_parsed))
        => (result = FailedTwice /\ ModelCalls = 2)

\* C5 (normalized match, canonical output): when the id or the name of the
\* first output equals a candidate's after trimming and case-folding, the
\* decision is returned without a retry, with the stored id and name of a
\* matching candidate and with the reasoning the model gave.
C5_NormalizedMatch ==
    (Done /\ ModelCalls >= 1 /\ Matches(parsed))
        => /\ ModelCalls = 1
           /\ Names(IdHits(parsed) \cup NameHits(parsed))
           /\ parsed.d.reasoning.t # "absent"
                 => result.d.reasoning = parsed.d.reasoning

\* C6 (retry ordering): the second call is issued exactly when the parsed
\* first output matches no candidate, after the first call returned, and
\* its prompt carries the full candidate list and the query text of the
\* first prompt.
C6_RetryOrdering ==
    /\ ModelCalls = 2
          => /\ ~Matches(parsed)
             /\ Len(llm_outputs) >= 1
             /\ llm_calls[2].options = candidates
             /\ llm_calls[2].query_text = llm_calls[1].query_text
    /\ (Done /\ ModelCalls >= 1 /\ ~Matches(parsed)) => ModelCalls = 2

\* C7 (retry acceptance): when the first output matches no candidate and
\* the retry output matches one, by id or else by name, assign_team returns
\* that candidate's stored id and name with the reasoning of the retry
\* output.
C7_RetryAcceptance ==
    (Done /\ ModelCalls = 2 /\ Matches(retry_parsed))
        => /\ Names(IF IdHits(retry_parsed) # {} THEN IdHits(retry_parsed)
                    ELSE NameHits(retry_parsed))
           /\ retry_parsed.d.reasoning.t # "absent"
                 => result.d.reasoning = retry_parsed.d.reasoning

\* The output validated last in a finished request.
LastRecord == IF ModelCalls = 2 THEN retry_parsed ELSE parsed

\* C8 (match priority): in the first and in the retry validation, a record
\* whose normalized id is a candidate's yields a candidate with that id,
\* whatever its name matches; a candidate is taken by name only when no
\* candidate has the id; when neither matches no candidate is returned.
C8_MatchPriority ==
    (Done /\ ModelCalls >= 1 /\ result.kind = "returned")
        => /\ IdHits(LastRecord) # {} => Names(IdHits(LastRecord))
           /\ (IdHits(LastRecord) = {} /\ NameHits(LastRecord) # {})
                 => Names(NameHits(LastRecord))
           /\ ~Matches(LastRecord) => (result = FailedTwice /\ ModelCalls = 2)

\* The retry output has candidate X's id and another candidate Y's name,
\* and X is returned.
C8_Witness ==
    /\ Done
    /\ ModelCalls = 2
    /\ result.kind = "returned"
    /\ \E x \in IdHits(retry_parsed) : \E y \in NameHits(retry_parsed) :
          /\ x # y
          /\ y \notin IdHits(retry_parsed)
          /\ result.d.assigned_team_id = candidates[x].team_id
          /\ result.d.assigned_team_id # candidates[y].team_id

\* C9 (graceful parse): safe_parse_json returns a key/value mapping for
\* every model output, also for JSON text that is not an object.
C9_GracefulParse ==
    /\ Len(llm_outputs) >= 1 => parsed.t = "dict"
    /\ Len(llm_outputs) = 2 => retry_parsed.t = "dict"

\* C10 (degraded records are rejected): when the first output is not
\* decodable, validation finds no candidate and the retry call is issued.
C10_DegradedRejected ==
    (Done /\ Len(llm_outputs) >= 1 /\ candidates # <<>> /\ Undecodable(llm_outputs[1]))
        => ModelCalls = 2

\* ------------------------------------------------------------------------
\* Properties of the solution engine
\* ------------------------------------------------------------------------
\* generate_solution was called with neither a subject nor a body.
EmptyInput == pc # "idle" /\ ~Truthy(req.subject) /\ ~Truthy(req.body)

\* The prompt of the running generate_solution call has been composed.
PromptBuilt == pc \in {"solution_call", "solution_return"} \/ (Done /\ ModelCalls = 1)

\* The answer of the retrieved row r stands in the context block.
InContext(r) ==
    \E j \in DOMAIN user_msg.context :
        /\ user_msg.context[j].ticket_id = r.ticket_id
        /\ user_msg.context[j].answer = OrEmpty(r.answer)

\* The answer contains one of the listed wordings, compared without case.
DeflectionWords ==
    {<<"c", "o", "n", "t", "a", "c", "t">>,
     <<"c", "a", "l", "l">>,
     <<"e", "m", "a", "i", "l">>,
     <<"r", "e", "a", "c", "h", " ", "o", "u", "t">>,
     <<"o", "p", "e", "n", " ", "a", " ", "t", "i", "c", "k", "e", "t">>,
     <<"s", "e", "r", "v", "i", "c", "e", " ", "d", "e", "s", "k">>}

ListedDeflection(answer) == \E w \in DeflectionWords : Contains(lower(answer), w)

\* The output is a str from which no JSON object is decoded, neither
\* directly after fence stripping nor from its brace-delimited part.
NoObjectDecoded(raw) ==
    /\ raw.isstr
    /\ LET s == _strip_fences(raw.toks)
           m == ReSearchBraces(s)
       IN /\ ~(JsonLoads(s).ok /\ JsonLoads(s).v.t = "dict")
          /\ ~(m.found /\ JsonLoads(m.toks).ok)

\* C11 (empty-input short-circuit): called with subject and body both empty
\* or None, generate_solution returns the static "please provide details"
\* record with no sources, and makes no model, embedding or retrieval call.
C11_EmptyInputShortCircuit ==
    EmptyInput
        => /\ Done
           /\ result = NoDetails
           /\ ModelCalls = 0
           /\ embed_calls = 0
           /\ retrieval_calls = 0

\* C12 (single-shot solution): a generate_solution call with some subject
\* or body makes exactly one model call, never a second one, and returns a
\* record whose solution is a string, whatever the model returned.
C12_SingleShot ==
    /\ ModelCalls <= 1
    /\ (Done /\ ~EmptyInput)
          => /\ ModelCalls = 1
             /\ result.kind = "returned"
             /\ result.d.solution.t = "str"

\* C13 as stated (actionability filter): the answer of a retrieved row is in
\* the context block of the prompt exactly when it is non-empty, at least
\* MinActionableLen characters long after trimming, and contains none of
\* "contact", "call", "email", "reach out", "open a ticket", "service desk",
\* compared without case.
C13_ActionabilityFilter ==
    PromptBuilt
        => \A i \in DOMAIN retrieval.rows :
              LET answer == OrEmpty(retrieval.rows[i].answer)
              IN InContext(retrieval.rows[i])
                    <=> /\ answer # <<>>
                        /\ Len(strip(answer)) >= MinActionableLen
                        /\ ~ListedDeflection(answer)

\* C13 amended: as C13, where "reach out" stands for "reach" and "out" with
\* any whitespace between them, none included ("reachout", "reach  out").
C13_ActionabilityFilterAmended ==
    PromptBuilt
        => \A i \in DOMAIN retrieval.rows :
              LET answer == OrEmpty(retrieval.rows[i].answer)
              IN InContext(retrieval.rows[i])
                    <=> /\ answer # <<>>
                        /\ Len(strip(answer)) >= MinActionableLen
                        /\ ~ListedDeflection(answer)
                        /\ ~ContainsReachOut(lower(answer))

\* A long answer with "reach" and "out" not separated by one blank was
\* retrieved and left out of the context block.
C13_Witness ==
    /\ PromptBuilt
    /\ \E i \in DOMAIN retrieval.rows :
          LET answer == OrEmpty(retrieval.rows[i].answer)
          IN /\ Len(strip(answer)) >= MinActionableLen
             /\ ~ListedDeflection(answer)
             /\ ContainsReachOut(lower(answer))
             /\ ~InContext(retrieval.rows[i])

\* C14 (solution parse fallback): when no JSON object is decoded from the
\* model output, generate_solution returns the text of the output (as
\* returned or with fences and outer whitespace removed) as the solution,
\* and does not raise; also for the empty string and for JSON text that is
\* not an object.
C14_ParseFallback ==
    (Done /\ ModelCalls = 1 /\ NoObjectDecoded(llm_outputs[1]))
        => /\ result.kind = "returned"
           /\ result.d.solution
                 \in {Str(Render(llm_outputs[1].toks)),
                      Str(Render(_strip_fences(llm_outputs[1].toks)))}

\* ------------------------------------------------------------------------
\* Properties of the judge
\* ------------------------------------------------------------------------
\* A solution argument that is None or empty after trimming.
EmptySolution(v) == ~Truthy(v) \/ strip(v.s) = <<>>

\* The similarity field of the object the grading call returned.
RawSimilarity == GetOr(parsed.d, "similarity", Absent)

\* llm_grade_solution ended after the grading call returned a JSON object
\* whose category, if any, is a string.
Graded ==
    /\ Done
    /\ ModelCalls = 1
    /\ JsonLoads(llm_outputs[1].toks).ok
    /\ parsed.t = "dict"
    /\ GetOr(parsed.d, "category", None).t \in {"str", "none"}

\* C15 (judge short-circuit): with a reference or generated solution that
\* is None or empty after trimming, llm_grade_solution returns similarity
\* 0.0 and category "mismatch" with an explanation and makes no model call;
\* otherwise it makes exactly one model call.
C15_JudgeShortCircuit ==
    /\ ModelCalls <= 1
    /\ (pc # "idle" /\ (EmptySolution(req.reference_solution)
                        \/ EmptySolution(req.generated_solution)))
          => /\ Done
             /\ ModelCalls = 0
             /\ result.kind = "returned"
             /\ result.d.similarity = 0
             /\ result.d.category = <<"m", "ismatch">>
             /\ result.d.explanation # <<>>
    /\ (Done /\ ~EmptySolution(req.reference_solution)
             /\ ~EmptySolution(req.generated_solution))
          => ModelCalls = 1

\* A blank reference solution and a real generated solution: no call.
C15_Witness ==
    /\ Done
    /\ ModelCalls = 0
    /\ req.reference_solution = Str(<<" ">>)
    /\ ~EmptySolution(req.generated_solution)
    /\ result.d.category = <<"m", "ismatch">>

\* C16 (judge clamp): whatever similarity the grading call returns, the
\* reported similarity lies in [0, 1]: a value below 0 is reported as 0.0,
\* a value above 1 as 1.0, a value inside unchanged; a missing, null or
\* non-numeric value still gives a result with a similarity in [0, 1], not
\* an exception.
C16_JudgeClamp ==
    Graded
        => /\ result.kind = "returned"
           /\ 0 <= result.d.similarity /\ result.d.similarity <= One
           /\ RawSimilarity.t = "num"
                 => result.d.similarity =
                       (IF RawSimilarity.n < 0 THEN 0
                        ELSE IF RawSimilarity.n > One THEN One
                        ELSE RawSimilarity.n)

\* ------------------------------------------------------------------------
\* Properties of the retriever
\* ------------------------------------------------------------------------
\* top_k_similar has been called.
Retrieved == retrieval_calls >= 1

\* The chunks the WHERE clause of the last call lets through.
Eligible ==
    {i \in DOMAIN chunks :
        retrieval.exclude_ticket_id.t = "none"
        \/ chunks[i].ticket_id # retrieval.exclude_ticket_id.n}

\* The chunks of the returned rows.
ReturnedChunks == {retrieval.rows[i].chunk_id : i \in DOMAIN retrieval.rows}

\* C17 (retrieval exclusion): no row returned by top_k_similar has the
\* ticket_id given as exclude_ticket_id; with None no ticket is excluded;
\* assign_team and generate_solution pass the id of their own ticket, so no
\* neighbour row is a chunk of the ticket being decided.
C17_RetrievalExclusion ==
    Retrieved
        => /\ retrieval.exclude_ticket_id.t # "none"
                 => \A i \in DOMAIN retrieval.rows :
                       retrieval.rows[i].ticket_id # retrieval.exclude_ticket_id.n
           /\ retrieval.exclude_ticket_id.t = "none"
                 => Len(retrieval.rows) = Min(retrieval.top_k, Len(chunks))
           /\ pc \in {"first_attempt", "solution_call"}
                 => /\ retrieval.exclude_ticket_id = Num(req.ticket_id)
                    /\ \A i \in DOMAIN retrieval.rows :
                          retrieval.rows[i].ticket_id # req.ticket_id

\* An agent's retrieval returned a row although the nearest chunk is one
\* of its own ticket.
C17_Witness ==
    /\ pc \in {"first_attempt", "solution_call"}
    /\ retrieval.rows # <<>>
    /\ \E k \in DOMAIN chunks :
          /\ chunks[k].ticket_id = req.ticket_id
          /\ Distance(chunks[k].embedding, retrieval.qvec) < retrieval.rows[1].score

\* C18 (retrieval cardinality and order): top_k_similar returns exactly
\* min(top_k, number of eligible chunks) rows, each of another eligible
\* chunk, also for chunks of one ticket, in ascending order of score; no
\* eligible chunk left out is nearer than a returned one; with no chunks
\* the result is empty.
C18_RetrievalOrder ==
    Retrieved
        => /\ Len(retrieval.rows) = Min(retrieval.top_k, Cardinality(Eligible))
           /\ ReturnedChunks \subseteq {chunks[i].id : i \in Eligible}
           /\ Cardinality(ReturnedChunks) = Len(retrieval.rows)
           /\ \A i, j \in DOMAIN retrieval.rows :
                 i < j => retrieval.rows[i].score <= retrieval.rows[j].score
           /\ \A i \in DOMAIN retrieval.rows :
                 /\ \E k \in Eligible :
                       /\ chunks[k].id = retrieval.rows[i].chunk_id
                       /\ chunks[k].ticket_id = retrieval.rows[i].ticket_id
                       /\ retrieval.rows[i].score
                             = Distance(chunks[k].embedding, retrieval.qvec)
                 /\ \A k \in Eligible :
                       chunks[k].id \notin ReturnedChunks
                          => retrieval.rows[i].score
                                <= Distance(chunks[k].embedding, retrieval.qvec)
           /\ chunks = <<>> => retrieval.rows = <<>>

\* Two rows for two chunks of one ticket, and a farther chunk left out.
C18_Witness ==
    /\ Retrieved
    /\ Len(retrieval.rows) = 2
    /\ retrieval.rows[1].ticket_id = retrieval.rows[2].ticket_id
    /\ retrieval.rows[1].score < retrieval.rows[2].score
    /\ \E k \in Eligible : chunks[k].id \notin ReturnedChunks

\* ------------------------------------------------------------------------
\* Properties of the handlers
\* ------------------------------------------------------------------------
\* The columns of ticket i a handler must not write.
Confirmed(tks, i) ==
    [subject |-> tks[i].subject, body |-> tks[i].body, answer |-> tks[i].answer,
     assigned_team_id |-> tks[i].assigned_team_id]

\* C19 (advisory writes only): no step of an /assign or /solution request
\* changes the assigned_team_id or the answer of a ticket; a step of
\* /assign changes at most the suggested_assigned_team_id of the requested
\* ticket, a step of /solution at most its suggested_answer, and no field
\* of another ticket changes.
C19_AdvisoryWrites ==
    [][\A i \in TicketIds :
          /\ Confirmed(tickets', i) = Confirmed(tickets, i)
          /\ tickets'[i] # tickets[i]
                => /\ i = req.ticket_id
                   /\ response.route = "assign"
                         => tickets'[i].suggested_answer = tickets[i].suggested_answer
                   /\ response.route = "solution"
                         => tickets'[i].suggested_assigned_team_id
                               = tickets[i].suggested_assigned_team_id]_vars

\* Two requests were served: one wrote a suggested team, one a suggested
\* answer.
C19_Witness ==
    /\ pc = "responded"
    /\ response.seq = 2
    /\ \E i \in TicketIds : tickets[i].suggested_assigned_team_id # None
    /\ \E i \in TicketIds : tickets[i].suggested_answer # None

\* C20 (unassigned is not persisted and not an error): when assign_team
\* returned an empty assigned_team_id, /assign leaves the ticket's
\* suggested_assigned_team_id as it was and answers normally, with
\* assigned_team_id "", assigned_team_name "Unassigned" and persisted
\* false.
C20_UnassignedResponse ==
    [][(/\ pc = "done"
        /\ pc' = "responded"
        /\ response.route = "assign"
        /\ result.kind = "returned"
        /\ ~Truthy(result.d.assigned_team_id))
          => /\ tickets' = tickets
             /\ response'.status = 200
             /\ response'.body = [assigned_team_id |-> Str(<<>>),
                                  assigned_team_name |-> Str(<<"Unassigned">>),
                                  persisted |-> FALSE]]_vars

\* ------------------------------------------------------------------------
\* Properties of the handlers under failures
\* ------------------------------------------------------------------------
\* The agent has ended and its embedding or its retrieval had failed.
RetrievalFailed == pc = "done" /\ embed_calls >= 1 /\ retrieval = NoRetrieval

\* C21 (retrieval and indexing failures degrade): when embed_text or
\* top_k_similar failed during an assignment or solution request, the
\* agent still ends with a decision or a solution, not with the failure.
C21_FailuresDegrade == RetrievalFailed => result.kind = "returned"

\* ------------------------------------------------------------------------
\* Properties of the first prompt
\* ------------------------------------------------------------------------
\* The teams of a list.
TeamsOf(list) == {list[i] : i \in DOMAIN list}

\* C22 (full candidate list in the first prompt): the team list of the
\* first prompt of assign_team holds every candidate returned by
\* load_all_teams, whatever the retrieved neighbours are.
C22_FullCandidateList ==
    pc = "first_attempt" => TeamsOf(user_msg.options) = TeamsOf(candidates)

\* ------------------------------------------------------------------------
\* More properties of the judge
\* ------------------------------------------------------------------------
\* The grading call returned something that is no JSON object: content
\* that is None, text that does not decode, or JSON of another type.
NotAnObject(raw) ==
    ~(raw.isstr /\ JsonLoads(raw.toks).ok /\ JsonLoads(raw.toks).v.t = "dict")

\* C23 (judge parse failure degrades): when the grading call's response is
\* not decodable, or decodable but not an object, llm_grade_solution
\* returns similarity 0.0 and category "mismatch" with a note, and does
\* not raise.
C23_JudgeParseFailure ==
    (Done /\ ModelCalls = 1 /\ NotAnObject(llm_outputs[1]))
        => /\ result.kind = "returned"
           /\ result.d.similarity = 0
           /\ result.d.category = <<"m", "ismatch">>
           /\ result.d.explanation # <<>>

\* The category of the decoded object after trimming and lower-casing;
\* empty when there is none or it is no string.
GivenCategory ==
    LET given == GetOr(parsed.d, "category", Absent)
    IN IF given.t = "str" THEN lower(strip(given.s)) ELSE <<>>

\* C27 (judge category derivation): a category that is one of the three
\* labels after trimming and lower-casing is reported as it is; any other
\* category is replaced by good_match for a clamped similarity of at least
\* 0.8, partial_match from 0.4 and mismatch below; the reported category
\* is always one of the three labels.
C27_JudgeCategory ==
    (Done /\ ModelCalls = 1 /\ parsed.t = "dict")
        => /\ result.kind = "returned"
           /\ result.d.category \in Labels
           /\ GivenCategory \in Labels => result.d.category = GivenCategory
           /\ GivenCategory \notin Labels
                 => result.d.category =
                       (IF result.d.similarity >= FallbackGood THEN <<"g", "ood_match">>
                        ELSE IF result.d.similarity >= FallbackPartial
                        THEN <<"p", "artial_match">>
                        ELSE <<"m", "ismatch">>)

\* ------------------------------------------------------------------------
\* More properties of assign_team
\* ------------------------------------------------------------------------
\* C24 (assignment always ends in a terminal decision): with a non-empty
\* candidate list, assign_team ends with the id and name of a candidate or
\* with the "failed twice" sentinel, whatever the model returned, and
\* never with an exception.
C24_TerminalDecision ==
    (Done /\ candidates # <<>>)
        => /\ result.kind = "returned"
           /\ \/ result = FailedTwice
              \/ \E i \in DOMAIN candidates :
                    /\ result.d.assigned_team_id = candidates[i].team_id
                    /\ result.d.assigned_team_name = candidates[i].team_name

\* assign_team returned a candidate.
Accepted == Done /\ result.kind = "returned" /\ Truthy(result.d.assigned_team_id)

\* How the accepted record matched: "by_id" or "by_name".
MatchedHow == validate(LastRecord, candidates).how

\* C25 (fallback reasoning): an accepted decision whose record has no
\* reasoning carries "Selected by ID." when the candidate matched by id
\* and "Selected by name." when it matched by name, after the first and
\* after the second validation; a record with reasoning keeps it.
C25_FallbackReasoning ==
    Accepted
        => IF LastRecord.d.reasoning.t = "absent"
           THEN result.d.reasoning =
                   (IF MatchedHow = "by_id" THEN Str(<<"Selected by ID.">>)
                    ELSE Str(<<"Selected by name.">>))
           ELSE result.d.reasoning = LastRecord.d.reasoning

\* C25, amended: the fallback is "Selected by ID." or "Selected by name."
\* after the first validation and "Valid team found after retry (by ID)."
\* or "Valid team found after retry (by name)." after the second; a parsed
\* record with a reasoning key keeps its value.
C25_FallbackReasoningAmended ==
    Accepted
        => IF LastRecord.d.reasoning.t = "absent"
           THEN result.d.reasoning =
                   (IF ModelCalls = 1
                    THEN IF MatchedHow = "by_id" THEN Str(<<"Selected by ID.">>)
                         ELSE Str(<<"Selected by name.">>)
                    ELSE IF MatchedHow = "by_id"
                         THEN Str(<<"Valid team found after retry (by ID).">>)
                         ELSE Str(<<"Valid team found after retry (by name).">>))
           ELSE result.d.reasoning = LastRecord.d.reasoning

\* A retry output without reasoning was accepted by name.
C25_Witness ==
    /\ Accepted
    /\ ModelCalls = 2
    /\ LastRecord.d.reasoning.t = "absent"
    /\ MatchedHow = "by_name"

\* ------------------------------------------------------------------------
\* More properties of generate_solution
\* ------------------------------------------------------------------------
\* The positions of the retrieved rows whose answer passes the filter.
Surviving ==
    {i \in DOMAIN retrieval.rows : _is_actionable(OrEmpty(retrieval.rows[i].answer))}

\* C26 (sources mirror the surviving neighbours): a result of
\* generate_solution that was not short-circuited lists one
\* {ticket_id, title, score} entry for each retrieved row whose answer
\* passed the actionability filter, in retrieval order, also for rows of
\* one ticket, whatever the model returned.
C26_SourcesMirror ==
    (Done /\ ModelCalls = 1 /\ result.kind = "returned")
        => LET sources == result.d.sources
           IN /\ Len(sources) = Cardinality(Surviving)
              /\ \E f \in [DOMAIN sources -> Surviving] :
                    /\ \A i, j \in DOMAIN sources : i < j => f[i] < f[j]
                    /\ \A i \in DOMAIN sources :
                          /\ sources[i].ticket_id = retrieval.rows[f[i]].ticket_id
                          /\ sources[i].title = retrieval.rows[f[i]].title
                          /\ sources[i].score = retrieval.rows[f[i]].score

\* Two chunks of one ticket were retrieved, both answers passed, and the
\* result lists both.
C26_Witness ==
    /\ Done
    /\ result.kind = "returned"
    /\ Len(retrieval.rows) = 2
    /\ Len(result.d.sources) = 2
    /\ result.d.sources[1].ticket_id = result.d.sources[2].ticket_id

\* ------------------------------------------------------------------------
\* Properties of the indexer
\* ------------------------------------------------------------------------
\* The number of chunks of a ticket.
ChunkCount(ticket_id) ==
    Cardinality({i \in DOMAIN chunks : chunks[i].ticket_id = ticket_id})

\* C28 (index-once): whatever requests call ensure_indexed, also two at
\* once for one ticket, no ticket has more chunks than one indexing of its
\* body produces (one chunk for the bodies here), and a ticket without a
\* body has no more chunks than it had.
C28_IndexOnce == \A t \in TicketIds : ChunkCount(t) <= 1

\* ------------------------------------------------------------------------
\* Properties of the persisted suggestion
\* ------------------------------------------------------------------------
\* C29 (persisted suggestions reference existing teams): whenever a step
\* changes a ticket's suggested_assigned_team_id, the new value is the
\* team_id of a team that is in the teams table at that moment, also when
\* teams are removed between the candidate load and the write.
C29_WrittenTeamExists ==
    [][\A i \in TicketIds :
          tickets'[i].suggested_assigned_team_id # tickets[i].suggested_assigned_team_id
             => \E tm \in teams :
                   tm.team_id = tickets'[i].suggested_assigned_team_id]_vars

====
